---- MODULE Spec2Model ----
(***************************************************************************)
(* Model of the rule evaluation and scoring engine of                      *)
(* src/scoring_engine.py (class ScoringEngine).                            *)
(*                                                                         *)
(* Strings are sequences of one-character strings, so that lower(),        *)
(* substring search and list membership are computed, not assumed.         *)
(* Python values of dynamic type (None, a number, a string, a list) are    *)
(* records tagged by their kind k.                                         *)
(***************************************************************************)
EXTENDS Integers, Sequences, FiniteSets, TLC

VARIABLES
    rules,      \* the ScoringRules object handed to ScoringEngine(...)
    engine,     \* "none" | "ready" (constructor returned) | "failed" (constructor raised)
    error,      \* the ValueError message of a failed construction, "" otherwise
    candidate,  \* the CandidateData of the last score() call
    result,     \* what the last score() call produced: a ScoringResult or a raised error
    calls,      \* the score() calls in flight on the engine, one per caller
    exported,   \* the mapping the last export_rules() call returned
    extraction  \* the PDF extraction service: its MIN_TEXT_LENGTH, the last PDF, the record returned

vars == <<rules, engine, error, candidate, result, calls, exported, extraction>>

----------------------------------------------------------------------------
(* Bounds of the enumerated inputs *)

MaxMust == 2        \* longest must_skills list drawn from SkillPool
MaxReject == 2      \* longest reject_rules list drawn from RejectPool
MaxCalls == 2       \* callers that can be inside score() at the same time
MaxTextLen == 2     \* longest raw_text drawn from TextChars
MaxPages == 2       \* most pages of a PDF handed to the extraction service

----------------------------------------------------------------------------
(* Python values *)

None == [k |-> "none", n |-> 0, s |-> <<>>]
Num(x) == [k |-> "num", n |-> x, s |-> <<>>]
Str(x) == [k |-> "str", n |-> 0, s |-> x]
\* a list value as seen through getattr (only its length matters to the engine)
ListVal(len) == [k |-> "list", n |-> len, s |-> <<>>]

\* Python truthiness: None, 0, "" and [] are falsy
Truthy(v) ==
    CASE v.k = "none" -> FALSE
      [] v.k = "num" -> v.n # 0
      [] v.k = "str" -> v.s # <<>>
      [] v.k = "list" -> v.n # 0

----------------------------------------------------------------------------
(* Text primitives *)

\* str.lower() on one character of the model's alphabet
LowerChar(c) ==
    CASE c = "A" -> "a" [] c = "B" -> "b" [] c = "C" -> "c" [] c = "D" -> "d"
      [] c = "E" -> "e" [] c = "M" -> "m" [] c = "R" -> "r" [] c = "S" -> "s"
      [] c = "X" -> "x" [] c = "Y" -> "y"
      [] OTHER -> c

\* str.lower()
Lower(s) == [i \in 1..Len(s) |-> LowerChar(s[i])]

\* [s.lower() for s in xs]
LowerAll(xs) == [i \in 1..Len(xs) |-> Lower(xs[i])]

\* Python's  s in t  for strings: s occurs in t as a contiguous run
IsSubstring(s, t) ==
    \E i \in 0..(Len(t) - Len(s)) : SubSeq(t, i + 1, i + Len(s)) = s

\* Python's  x in xs  for a list: x equals some element
InList(x, xs) == \E i \in 1..Len(xs) : xs[i] = x

\* all sequences over S of length at most n
SeqsUpTo(S, n) == UNION {[1..k -> S] : k \in 0..n}

----------------------------------------------------------------------------
(* Regular expressions: the fragment used by the rule sets of the model.   *)
(* A pattern is a sequence of characters; "|" separates alternatives of    *)
(* literal characters and "(" opens a group.  re.compile raises re.error   *)
(* on a group that is never closed.                                        *)

\* re.compile(pattern) succeeds
RegexValid(p) == \A i \in 1..Len(p) : p[i] # "("

\* position of the first "|" of p at or after i, Len(p)+1 if none
RECURSIVE NextBar(_, _)
NextBar(p, i) ==
    IF i > Len(p) THEN Len(p) + 1
    ELSE IF p[i] = "|" THEN i
    ELSE NextBar(p, i + 1)

\* the alternatives of p, left to right
RECURSIVE Alternatives(_, _)
Alternatives(p, i) ==
    LET j == NextBar(p, i) IN
    IF j > Len(p) THEN {SubSeq(p, i, Len(p))}
    ELSE {SubSeq(p, i, j - 1)} \cup Alternatives(p, j + 1)

\* re.search(pattern, text, re.IGNORECASE) finds a match (pattern valid)
RegexSearch(p, text) ==
    \E alt \in Alternatives(p, 1) : IsSubstring(Lower(alt), Lower(text))

----------------------------------------------------------------------------
(* Rules *)

NoPattern == [present |-> FALSE, text |-> <<>>]
Pattern(p) == [present |-> TRUE, text |-> p]

\* SkillRule(skill, weight, type=KEYWORD, pattern=None)
Keyword(skill, weight) ==
    [skill |-> skill, weight |-> weight, type |-> "keyword", pattern |-> NoPattern]
Regex(skill, weight, pattern) ==
    [skill |-> skill, weight |-> weight, type |-> "regex", pattern |-> pattern]

\* NumericRule(field, operator, value, weight, label); value is lo, and hi for range
NumericRule(field, operator, lo, hi, weight, label) ==
    [field |-> field, operator |-> operator, lo |-> lo, hi |-> hi, weight |-> weight,
     label |-> label]

\* EnumRule(field, values, weight, label)
EnumRule(field, values, weight, label) ==
    [field |-> field, values |-> values, weight |-> weight, label |-> label]

\* RejectRule(keyword, penalty)
RejectRule(keyword, penalty) == [keyword |-> keyword, penalty |-> penalty]

\* GradeThresholds(A, B, C, D); grade_thresholds=None is NoThresholds
Thresholds(a, b, c, d) == [present |-> TRUE, A |-> a, B |-> b, C |-> c, D |-> d]
NoThresholds == [present |-> FALSE, A |-> 0, B |-> 0, C |-> 0, D |-> 0]

\* the defaults of the GradeThresholds dataclass
DefaultThresholds == Thresholds(80, 60, 40, 0)

\* the rule set of the unit tests' setUp, over the model's alphabet
BaseMust == <<Keyword(<<"A">>, 3), Keyword(<<"b", "c">>, 2), Keyword(<<"c">>, 2)>>
BaseNice == <<Keyword(<<"d">>, 2), Keyword(<<"e">>, 1), Keyword(<<"f">>, 1)>>
BaseNumeric == <<NumericRule("work_years", ">=", 3, 3, 2, "exp3")>>
BaseEnum == <<EnumRule("education", {<<"b", "s">>, <<"M", "s">>}, 1, "degree")>>
BaseReject == <<RejectRule(<<"X">>, 20), RejectRule(<<"y">>, 15)>>

BaseRules ==
    [version |-> <<"1">>,
     must_skills |-> BaseMust,
     nice_skills |-> BaseNice,
     numeric_rules |-> BaseNumeric,
     enum_rules |-> BaseEnum,
     reject_rules |-> BaseReject,
     grade_thresholds |-> DefaultThresholds,
     must_weight_multiplier |-> 10,
     nice_weight_multiplier |-> 5]

\* skill rules the must_skills lists are drawn from
SkillPool ==
    {Keyword(<<"A">>, 3),
     Keyword(<<"a", "b">>, 2),
     Regex(<<"c">>, 3, Pattern(<<"(">>)),
     Regex(<<"c">>, 2, Pattern(<<"b", "|", "C">>)),
     Regex(<<"a">>, 1, NoPattern)}

NiceLists ==
    {<<>>,
     <<Keyword(<<"c">>, 4)>>,
     <<Regex(<<"d">>, 2, Pattern(<<"a", "(">>)), Keyword(<<"A">>, 1)>>,
     <<Regex(<<"a">>, 1, Pattern(<<>>)), Regex(<<"x">>, 2, Pattern(<<"A", "|", "c">>))>>}

\* reject rules the reject_rules lists are drawn from
RejectPool ==
    {RejectRule(<<"X">>, 20), RejectRule(<<"y">>, 15), RejectRule(<<"a">>, 120)}

\* reject lists in which two rules carry the same keyword
SameKeywordRejects ==
    {<<RejectRule(<<"X">>, 20), RejectRule(<<"X">>, 5)>>,
     <<RejectRule(<<"x">>, 5), RejectRule(<<"X">>, 20)>>}

NumericLists ==
    {<<>>,
     <<NumericRule("work_years", "range", 3, 7, 2, "exp3to7")>>,
     <<NumericRule("level", ">", 3, 3, 4, "senior"),
       NumericRule("education", "<=", 5, 5, 1, "edu")>>,
     <<NumericRule("work_years", "=", 0, 0, 3, "fresh"),
       NumericRule("skills", "<", 9, 9, 1, "few")>>,
     <<NumericRule("work_years", "<", 3, 3, 1, "under3"),
       NumericRule("work_years", "<=", 3, 3, 2, "upto3"),
       NumericRule("work_years", ">", 3, 3, 3, "over3")>>}

EnumLists ==
    {<<>>,
     <<EnumRule("level", {<<"5">>, <<"s", "r">>}, 2, "level")>>,
     <<EnumRule("work_years", {<<"0">>, <<"1">>}, 1, "junior"),
       EnumRule("education", {<<"m", "S">>}, 3, "master")>>}

ThresholdChoices ==
    {NoThresholds,
     Thresholds(80, 60, 40, 20),
     Thresholds(60, 60, 10, 10),
     Thresholds(120, 100, 0, -5),
     Thresholds(50, 60, 70, 0),
     Thresholds(80, 60, 70, 0),
     Thresholds(80, 60, 40, 50)}

MultiplierChoices == {<<10, 10>>, <<0, 5>>, <<1, 20>>}

\* the rule sets handed to the constructor: BaseRules changed in one component
RuleSets ==
    {BaseRules, [BaseRules EXCEPT !.version = <<>>]}
    \cup {[BaseRules EXCEPT !.must_skills = m] : m \in SeqsUpTo(SkillPool, MaxMust)}
    \cup {[BaseRules EXCEPT !.nice_skills = m] : m \in NiceLists}
    \cup {[BaseRules EXCEPT !.numeric_rules = m] : m \in NumericLists}
    \cup {[BaseRules EXCEPT !.enum_rules = m] : m \in EnumLists}
    \cup {[BaseRules EXCEPT !.reject_rules = m] :
              m \in SeqsUpTo(RejectPool, MaxReject) \cup SameKeywordRejects}
    \cup {[BaseRules EXCEPT !.grade_thresholds = t] : t \in ThresholdChoices}
    \cup {[BaseRules EXCEPT !.version = <<>>, !.grade_thresholds = t] :
              t \in {NoThresholds, Thresholds(50, 60, 70, 0)}}
    \cup {[BaseRules EXCEPT !.must_weight_multiplier = m[1],
                            !.nice_weight_multiplier = m[2]] : m \in MultiplierChoices}

NoRules == [version |-> <<>>]

----------------------------------------------------------------------------
(* Candidates *)

\* CandidateData: the attributes the rules of the model can name, and extra_fields
Candidate(work_years, education, skills, raw_text, extra_fields) ==
    [work_years |-> work_years, education |-> education, skills |-> skills,
     raw_text |-> raw_text, extra_fields |-> extra_fields]

NoExtra == [f \in {} |-> None]
Extra(field, v) == [f \in {field} |-> v]

TextChars == {"a", "C", "x"}

Texts ==
    SeqsUpTo(TextChars, MaxTextLen)
    \cup {<<"x", "Y", "b", "c">>, <<"d", "E", "f", "b", "C", "a">>}

SkillLists ==
    {<<>>,
     <<<<"a">>>>,
     <<<<"A", "B">>, <<"C">>>>,
     <<<<"A">>, <<"B", "c">>, <<"C">>, <<"D">>, <<"e">>, <<"f">>>>}

\* candidates that vary in the text the skill and reject evaluators read
TextCandidates ==
    {Candidate(Num(5), Str(<<"m", "s">>), sk, t, NoExtra) :
        sk \in SkillLists, t \in Texts}

\* candidates that vary in the fields the numeric and enum evaluators and the
\* risk analyzer read, sparse profiles included
FieldCandidates ==
    {Candidate(w, e, <<<<"A">>, <<"c">>>>, <<"b", "c">>, x) :
        w \in {None, Num(0), Num(1), Num(2), Num(3), Num(5), Num(7), Num(10)},
        e \in {None, Str(<<>>), Str(<<"B", "s">>), Str(<<"5">>)},
        x \in {NoExtra, Extra("level", Num(5)), Extra("level", Str(<<"s", "R">>)),
               Extra("work_years", Num(4)), Extra("education", Str(<<"M", "s">>))}}

\* the rejected candidate of the unit tests: no experience, none of the skills,
\* both reject keywords in the text
RejectedCandidate ==
    Candidate(Num(0), Str(<<"b", "s">>), <<<<"h">>, <<"g">>>>, <<"x", "Y">>, NoExtra)

Candidates == TextCandidates \cup FieldCandidates \cup {RejectedCandidate}

NoCandidate == [raw_text |-> <<>>]
NoResult == [status |-> "none"]

----------------------------------------------------------------------------
(* Construction: ScoringEngine.__init__ and _validate_rules *)

\* mutant of ThresholdsOutOfOrder: the comparison of C with D is forgotten
ThresholdsOutOfOrderNoD(t) == t.A < t.B \/ t.B < t.C

\* thresholds.A < thresholds.B or thresholds.B < thresholds.C or thresholds.C < thresholds.D
ThresholdsOutOfOrder(t) == t.A < t.B \/ t.B < t.C \/ t.C < t.D

\* _validate_rules: "" when it returns, else the message of the ValueError it raises
ValidateRules(r) ==
    IF r.version = <<>> THEN "Rule version is required"
    ELSE IF ~r.grade_thresholds.present THEN "Grade thresholds are required"
    ELSE IF ThresholdsOutOfOrder(r.grade_thresholds)
         THEN "Invalid grade thresholds: A >= B >= C >= D"
    ELSE ""

----------------------------------------------------------------------------
(* Skill matcher and skill evaluator *)

NoMatch == [matched |-> FALSE, via |-> "none"]
MatchVia(via) == [matched |-> TRUE, via |-> via]

\* a keyword match that looks in the raw text before the skills list
KeywordMatchTextFirst(skill_lower, candidate_skills, raw_text) ==
    IF IsSubstring(skill_lower, raw_text) THEN MatchVia("raw_text")
    ELSE IF InList(skill_lower, candidate_skills) THEN MatchVia("skills_list")
    ELSE NoMatch

\* if rule.type == MatchType.KEYWORD: the skills-list test, then the raw-text test
KeywordMatch(skill_lower, candidate_skills, raw_text) ==
    IF InList(skill_lower, candidate_skills) THEN MatchVia("skills_list")
    ELSE IF IsSubstring(skill_lower, raw_text) THEN MatchVia("raw_text")
    ELSE NoMatch

\* mutant of RegexMatch: a pattern that does not compile falls back to a keyword
\* search of the skill name in the text
RegexMatchFallback(rule, raw_text) ==
    IF rule.pattern.present /\ rule.pattern.text # <<>>
    THEN IF RegexValid(rule.pattern.text)
         THEN IF RegexSearch(rule.pattern.text, raw_text)
              THEN MatchVia("regex") ELSE NoMatch
         ELSE IF IsSubstring(Lower(rule.skill), raw_text)
              THEN MatchVia("raw_text") ELSE NoMatch
    ELSE NoMatch

\* if rule.type == MatchType.REGEX and rule.pattern: re.search under try/except re.error
RegexMatch(rule, raw_text) ==
    IF rule.pattern.present /\ rule.pattern.text # <<>>
       /\ RegexValid(rule.pattern.text)
       /\ RegexSearch(rule.pattern.text, raw_text)
    THEN MatchVia("regex")
    ELSE NoMatch

\* a matcher that tries the keyword tests on every rule, whatever its type
MatchSkillKeywordFirst(rule, candidate_skills, raw_text) ==
    LET kw == KeywordMatch(Lower(rule.skill), candidate_skills, raw_text)
    IN  IF kw.matched THEN kw
        ELSE IF rule.type = "regex" THEN RegexMatch(rule, raw_text)
        ELSE NoMatch

\* _match_skill(rule, candidate_skills, raw_text)
MatchSkill(rule, candidate_skills, raw_text) ==
    LET skill_lower == Lower(rule.skill)
        kw == IF rule.type = "keyword"
              THEN KeywordMatch(skill_lower, candidate_skills, raw_text)
              ELSE NoMatch
    IN  IF kw.matched THEN kw
        ELSE IF rule.type = "regex" THEN RegexMatch(rule, raw_text)
        ELSE NoMatch

\* mutant of ItemScore: the multiplier is added instead of multiplied
ItemScoreAdded(rule, multiplier) == rule.weight + multiplier

\* item_score = rule.weight * multiplier  (potential_score likewise)
ItemScore(rule, multiplier) == rule.weight * multiplier

MatchedItem(name, weight, score, via) ==
    [name |-> name, weight |-> weight, score |-> score, matched_via |-> via]
MissingItem(name, weight, potential) ==
    [name |-> name, weight |-> weight, potential_score |-> potential]

\* mutant of SkillStep: an unmatched regex rule is skipped instead of reported missing
SkillStepSkipsRegex(acc, rule, multiplier, candidate_skills, raw_text_lower) ==
    LET is_matched == MatchSkill(rule, candidate_skills, raw_text_lower) IN
    IF is_matched.matched
    THEN [acc EXCEPT
            !.score = @ + ItemScore(rule, multiplier),
            !.matched = Append(@, MatchedItem(rule.skill, rule.weight,
                                              ItemScore(rule, multiplier),
                                              is_matched.via))]
    ELSE IF rule.type = "regex" THEN acc
    ELSE [acc EXCEPT
            !.missing = Append(@, MissingItem(rule.skill, rule.weight,
                                              ItemScore(rule, multiplier)))]

\* one iteration of the loop of _evaluate_skills
SkillStep(acc, rule, multiplier, candidate_skills, raw_text_lower) ==
    LET is_matched == MatchSkill(rule, candidate_skills, raw_text_lower) IN
    IF is_matched.matched
    THEN [acc EXCEPT
            !.score = @ + ItemScore(rule, multiplier),
            !.matched = Append(@, MatchedItem(rule.skill, rule.weight,
                                              ItemScore(rule, multiplier),
                                              is_matched.via))]
    ELSE [acc EXCEPT
            !.missing = Append(@, MissingItem(rule.skill, rule.weight,
                                              ItemScore(rule, multiplier)))]

\* the loop  for rule in skill_rules  from rule i on
RECURSIVE SkillLoop(_, _, _, _, _, _)
SkillLoop(acc, skill_rules, i, multiplier, candidate_skills, raw_text_lower) ==
    IF i > Len(skill_rules) THEN acc
    ELSE SkillLoop(SkillStep(acc, skill_rules[i], multiplier,
                             candidate_skills, raw_text_lower),
                   skill_rules, i + 1, multiplier, candidate_skills, raw_text_lower)

\* _evaluate_skills(candidate, skill_rules, multiplier)
EvaluateSkills(c, skill_rules, multiplier) ==
    SkillLoop([score |-> 0, matched |-> <<>>, missing |-> <<>>],
              skill_rules, 1, multiplier, LowerAll(c.skills), Lower(c.raw_text))

----------------------------------------------------------------------------
(* Field resolution, numeric and enum evaluators *)

\* getattr(candidate, field, None)
GetAttr(c, field) ==
    CASE field = "work_years" -> c.work_years
      [] field = "education" -> c.education
      [] field = "skills" -> ListVal(Len(c.skills))
      [] field = "raw_text" -> Str(c.raw_text)
      [] OTHER -> None

\* candidate.extra_fields.get(field)
ExtraGet(c, field) ==
    IF field \in DOMAIN c.extra_fields THEN c.extra_fields[field] ELSE None

\* a resolution that consults extra_fields before the fixed attribute
ResolveFieldExtraFirst(c, field) ==
    IF ExtraGet(c, field).k # "none" THEN ExtraGet(c, field) ELSE GetAttr(c, field)

\* field_value = getattr(...); if field_value is None: field_value = extra_fields.get(...)
ResolveField(c, field) ==
    IF GetAttr(c, field).k # "none" THEN GetAttr(c, field) ELSE ExtraGet(c, field)

Digits == {"0", "1", "2", "3", "4", "5", "6", "7", "8", "9"}
DigitVal(d) ==
    CASE d = "0" -> 0 [] d = "1" -> 1 [] d = "2" -> 2 [] d = "3" -> 3 [] d = "4" -> 4
      [] d = "5" -> 5 [] d = "6" -> 6 [] d = "7" -> 7 [] d = "8" -> 8 [] d = "9" -> 9
DigitChar(n) ==
    CASE n = 0 -> "0" [] n = 1 -> "1" [] n = 2 -> "2" [] n = 3 -> "3" [] n = 4 -> "4"
      [] n = 5 -> "5" [] n = 6 -> "6" [] n = 7 -> "7" [] n = 8 -> "8" [] n = 9 -> "9"

\* the value of a string of decimal digits
RECURSIVE DigitsValue(_, _)
DigitsValue(s, i) ==
    IF i = 0 THEN 0 ELSE 10 * DigitsValue(s, i - 1) + DigitVal(s[i])

\* float(field_value): ok is FALSE where it raises ValueError or TypeError
ToFloat(v) ==
    CASE v.k = "num" -> [ok |-> TRUE, n |-> v.n]
      [] v.k = "str" ->
            IF v.s # <<>> /\ \A i \in 1..Len(v.s) : v.s[i] \in Digits
            THEN [ok |-> TRUE, n |-> DigitsValue(v.s, Len(v.s))]
            ELSE [ok |-> FALSE, n |-> 0]
      [] OTHER -> [ok |-> FALSE, n |-> 0]

\* str(n) of a natural number
RECURSIVE NatToStr(_)
NatToStr(n) ==
    IF n < 10 THEN <<DigitChar(n)>> ELSE Append(NatToStr(n \div 10), DigitChar(n % 10))

\* str(field_value) of a truthy number or string
ToStr(v) ==
    CASE v.k = "str" -> v.s
      [] v.k = "num" -> IF v.n < 0 THEN <<"-">> \o NatToStr(-v.n) ELSE NatToStr(v.n)
      [] OTHER -> <<"[", "]">>   \* a list prints in brackets: no enum value of the model

\* a numeric match whose range leaves out its upper bound
MatchNumericRuleHalfOpen(rule, value) ==
    CASE rule.operator = ">=" -> value >= rule.lo
      [] rule.operator = "<=" -> value <= rule.lo
      [] rule.operator = ">" -> value > rule.lo
      [] rule.operator = "<" -> value < rule.lo
      [] rule.operator = "=" -> value = rule.lo
      [] rule.operator = "range" -> rule.lo <= value /\ value < rule.hi
      [] OTHER -> FALSE

\* _match_numeric_rule(rule, value)
MatchNumericRule(rule, value) ==
    CASE rule.operator = ">=" -> value >= rule.lo
      [] rule.operator = "<=" -> value <= rule.lo
      [] rule.operator = ">" -> value > rule.lo
      [] rule.operator = "<" -> value < rule.lo
      [] rule.operator = "=" -> value = rule.lo
      [] rule.operator = "range" -> rule.lo <= value /\ value <= rule.hi
      [] OTHER -> FALSE

\* one iteration of the loop of _evaluate_numeric_rules
NumericStep(acc, rule, c) ==
    LET field_value == ResolveField(c, rule.field)
        num_value == ToFloat(field_value)
    IN  IF field_value.k = "none" THEN acc
        ELSE IF ~num_value.ok THEN acc
        ELSE IF MatchNumericRule(rule, num_value.n)
        THEN [score |-> acc.score + rule.weight * 5,
              matched |-> Append(acc.matched,
                                 MatchedItem(rule.label, rule.weight, rule.weight * 5,
                                             <<rule.field, Num(num_value.n)>>))]
        ELSE acc

RECURSIVE NumericLoop(_, _, _, _)
NumericLoop(acc, numeric_rules, i, c) ==
    IF i > Len(numeric_rules) THEN acc
    ELSE NumericLoop(NumericStep(acc, numeric_rules[i], c), numeric_rules, i + 1, c)

\* _evaluate_numeric_rules(candidate)
EvaluateNumericRules(r, c) ==
    NumericLoop([score |-> 0, matched |-> <<>>], r.numeric_rules, 1, c)

\* one iteration of the loop of _evaluate_enum_rules
EnumStep(acc, rule, c) ==
    LET field_value == ResolveField(c, rule.field) IN
    IF ~Truthy(field_value) THEN acc
    ELSE IF \E v \in rule.values : Lower(v) = Lower(ToStr(field_value))
    THEN [score |-> acc.score + rule.weight * 5,
          matched |-> Append(acc.matched,
                             MatchedItem(rule.label, rule.weight, rule.weight * 5,
                                         <<rule.field, field_value>>))]
    ELSE acc

RECURSIVE EnumLoop(_, _, _, _)
EnumLoop(acc, enum_rules, i, c) ==
    IF i > Len(enum_rules) THEN acc
    ELSE EnumLoop(EnumStep(acc, enum_rules[i], c), enum_rules, i + 1, c)

\* _evaluate_enum_rules(candidate)
EvaluateEnumRules(r, c) ==
    EnumLoop([score |-> 0, matched |-> <<>>], r.enum_rules, 1, c)

----------------------------------------------------------------------------
(* Reject evaluator *)

\* keyword_lower in raw_text_lower
RejectMatches(rule, raw_text_lower) == IsSubstring(Lower(rule.keyword), raw_text_lower)

\* mutant of RejectStep: the scan stops at the first keyword found
RejectStepFirstOnly(acc, rule, raw_text_lower) ==
    IF acc.matched = <<>> /\ RejectMatches(rule, raw_text_lower)
    THEN [penalty |-> acc.penalty + rule.penalty,
          matched |-> Append(acc.matched, rule.keyword)]
    ELSE acc

\* one iteration of the loop of _evaluate_reject_rules
RejectStep(acc, rule, raw_text_lower) ==
    IF RejectMatches(rule, raw_text_lower)
    THEN [penalty |-> acc.penalty + rule.penalty,
          matched |-> Append(acc.matched, rule.keyword)]
    ELSE acc

RECURSIVE RejectLoop(_, _, _, _)
RejectLoop(acc, reject_rules, i, raw_text_lower) ==
    IF i > Len(reject_rules) THEN acc
    ELSE RejectLoop(RejectStep(acc, reject_rules[i], raw_text_lower),
                    reject_rules, i + 1, raw_text_lower)

\* _evaluate_reject_rules(candidate)
EvaluateRejectRules(r, c) ==
    RejectLoop([penalty |-> 0, matched |-> <<>>], r.reject_rules, 1, Lower(c.raw_text))

----------------------------------------------------------------------------
(* Aggregation and grade *)

Min(a, b) == IF a <= b THEN a ELSE b
Max(a, b) == IF a >= b THEN a ELSE b

\* mutant of TotalScore: the upper cap is missing
TotalScoreNoCap(must, nice, numeric, enum, penalty) ==
    Max(0, must + nice + numeric + enum - penalty)

\* mutant of TotalScore: the positive sum is capped before the penalty is subtracted
TotalScoreCapFirst(must, nice, numeric, enum, penalty) ==
    Max(0, Min(100, must + nice + numeric + enum) - penalty)

\* max(0, min(100, must + nice + numeric + enum - penalty))
TotalScore(must, nice, numeric, enum, penalty) ==
    Max(0, Min(100, must + nice + numeric + enum - penalty))

\* mutant of DetermineGrade: a score equal to a threshold falls into the band below
DetermineGradeStrict(score, t) ==
    IF score > t.A THEN "A"
    ELSE IF score > t.B THEN "B"
    ELSE IF score > t.C THEN "C"
    ELSE "D"

\* a classifier that tries the lowest threshold first
DetermineGradeLowestFirst(score, t) ==
    IF score < t.C THEN "D"
    ELSE IF score >= t.C THEN "C"
    ELSE IF score >= t.B THEN "B"
    ELSE "A"

\* _determine_grade(score)
DetermineGrade(score, t) ==
    IF score >= t.A THEN "A"
    ELSE IF score >= t.B THEN "B"
    ELSE IF score >= t.C THEN "C"
    ELSE "D"

\* round(x, 1): every score of the model is an int (weights, multipliers and
\* penalties are ints), and round() of an int is that int
Round1(x) == x

----------------------------------------------------------------------------
(* Risk analyzer *)

RiskItem(type, severity) == [type |-> type, severity |-> severity]

\* critical_missing = [m for m in must_results['missing'] if m.weight >= 3]
CriticalMissing(missing) == SelectSeq(missing, LAMBDA m : m.weight >= 3)

\* candidate.work_years < 2 raises TypeError when work_years is not a number
WorkYearsComparable(c) == c.work_years.k = "num"

\* a risk analysis that stops at the first risk found (an elif chain)
IdentifyRisksFirstOnly(r, c, must_results, reject_results, total_score) ==
    IF reject_results.matched # <<>> THEN <<RiskItem("reject_keyword", "high")>>
    ELSE IF CriticalMissing(must_results.missing) # <<>>
    THEN <<RiskItem("missing_must", "high")>>
    ELSE IF c.work_years.n < 2
    THEN <<RiskItem("low_experience",
                    IF c.work_years.n = 0 THEN "high" ELSE "medium")>>
    ELSE IF total_score < r.grade_thresholds.C
    THEN <<RiskItem("other", "high")>>
    ELSE <<>>

\* _identify_risks(candidate, must_results, reject_results, total_score), where
\* the comparison of work_years does not raise
IdentifyRisks(r, c, must_results, reject_results, total_score) ==
    (IF reject_results.matched # <<>>
        THEN <<RiskItem("reject_keyword", "high")>> ELSE <<>>)
    \o (IF CriticalMissing(must_results.missing) # <<>>
        THEN <<RiskItem("missing_must", "high")>> ELSE <<>>)
    \o (IF c.work_years.n < 2
        THEN <<RiskItem("low_experience",
                        IF c.work_years.n = 0 THEN "high" ELSE "medium")>>
        ELSE <<>>)
    \o (IF total_score < r.grade_thresholds.C
        THEN <<RiskItem("other", "high")>> ELSE <<>>)

----------------------------------------------------------------------------
(* The explanation: the text of _generate_explanation, one element per line
   of the text; a line is the kind of its fixed wording and the values
   formatted into it *)

Line(kind, name, x, y) == [kind |-> kind, name |-> name, x |-> x, y |-> y]
Blank == Line("blank", <<>>, 0, 0)

\* '=== ... ===\n', the total and f'...: {grade.value}\n'
HeaderLines(total_score, grade) ==
    <<Line("title", <<>>, 0, 0), Blank,
      Line("total", <<>>, total_score, 0),
      Line("grade", <<grade>>, 0, 0), Blank>>

\* the lines of the matched items of a skill category, under their count
MatchedLines(matched, skill_rules) ==
    IF matched = <<>> THEN <<>>
    ELSE <<Line("matched_count", <<>>, Len(matched), Len(skill_rules))>>
         \o [j \in 1..Len(matched) |->
                Line("matched_item", matched[j].name, matched[j].weight, matched[j].score)]

\* the lines of the missing items of the must category, under their count
MissingLines(missing) ==
    IF missing = <<>> THEN <<>>
    ELSE <<Line("missing_count", <<>>, Len(missing), 0)>>
         \o [j \in 1..Len(missing) |->
                Line("missing_item", missing[j].name, missing[j].weight,
                     missing[j].potential_score)]

\* the must-skills section
MustSection(r, must_results) ==
    <<Line("must_header", <<>>, must_results.score, 0)>>
    \o MatchedLines(must_results.matched, r.must_skills)
    \o MissingLines(must_results.missing)
    \o <<Blank>>

\* a nice-skills section that is written for a rule set without nice rules too
NiceSectionAlways(r, nice_results) ==
    <<Line("nice_header", <<>>, nice_results.score, 0)>>
    \o (IF nice_results.matched # <<>>
        THEN MatchedLines(nice_results.matched, r.nice_skills)
        ELSE <<Line("nice_none", <<>>, 0, 0)>>)
    \o <<Blank>>

\* the nice-skills section: if self.rules.nice_skills
NiceSection(r, nice_results) ==
    IF r.nice_skills = <<>> THEN <<>>
    ELSE <<Line("nice_header", <<>>, nice_results.score, 0)>>
         \o (IF nice_results.matched # <<>>
             THEN MatchedLines(nice_results.matched, r.nice_skills)
             ELSE <<Line("nice_none", <<>>, 0, 0)>>)
         \o <<Blank>>

\* rule = next((r for r in self.rules.reject_rules if r.keyword == keyword), None);
\* penalty = rule.penalty if rule else 15
ListedPenalty(reject_rules, keyword) ==
    LET same == {i \in 1..Len(reject_rules) : reject_rules[i].keyword = keyword}
    IN  IF same = {} THEN 15
        ELSE reject_rules[CHOOSE i \in same : \A j \in same : i <= j].penalty

\* the reject-keywords section: if reject_results['matched']
RejectSection(r, reject_results) ==
    IF reject_results.matched = <<>> THEN <<>>
    ELSE <<Line("reject_header", <<>>, reject_results.penalty, 0)>>
         \o [j \in 1..Len(reject_results.matched) |->
                Line("reject_item", reject_results.matched[j],
                     ListedPenalty(r.reject_rules, reject_results.matched[j]), 0)]
         \o <<Blank>>

\* the two lines of a risk: its icon and description, then its impact
RECURSIVE RiskLines(_, _)
RiskLines(risks, i) ==
    IF i > Len(risks) THEN <<>>
    ELSE <<Line("risk_item", <<risks[i].type>>, IF risks[i].severity = "high" THEN 1 ELSE 0, 0),
           Line("risk_impact", <<risks[i].type>>, 0, 0)>>
         \o RiskLines(risks, i + 1)

\* the risk section: if risks
RiskSection(risks) ==
    IF risks = <<>> THEN <<>>
    ELSE <<Line("risk_header", <<>>, 0, 0)>> \o RiskLines(risks, 1) \o <<Blank>>

\* the closing recommendation, one wording per grade
ClosingSection(grade) ==
    <<Line("closing_header", <<>>, 0, 0), Line("closing", <<grade>>, 0, 0)>>

\* _generate_explanation(...): '\n'.join(lines)
GenerateExplanation(r, total_score, grade, must_results, nice_results, reject_results, risks) ==
    HeaderLines(total_score, grade)
    \o MustSection(r, must_results)
    \o NiceSection(r, nice_results)
    \o RejectSection(r, reject_results)
    \o RiskSection(risks)
    \o ClosingSection(grade)

----------------------------------------------------------------------------
(* The one-line summary *)

\* a character outside ASCII is written as its code point
GradeText(grade) ==
    CASE grade = "A" -> <<"U+4F18", "U+79C0">>
      [] grade = "B" -> <<"U+826F", "U+597D">>
      [] grade = "C" -> <<"U+4E00", "U+822C">>
      [] grade = "D" -> <<"U+4E0D", "U+5408", "U+683C">>

\* f'{score:.1f}' of a score that is a non-negative int
FormatOneDecimal(score) == NatToStr(score) \o <<".", "0">>

\* a risk text that prints the count of a result without risks as well
RiskTextFromZero(risk_count) ==
    IF risk_count >= 0
    THEN <<"U+FF0C">> \o NatToStr(risk_count) \o <<"U+4E2A", "U+98CE", "U+9669", "U+70B9">>
    ELSE <<>>

\* f", {risk_count} risk points" (in Chinese) if risk_count > 0 else ''
RiskText(risk_count) ==
    IF risk_count > 0
    THEN <<"U+FF0C">> \o NatToStr(risk_count) \o <<"U+4E2A", "U+98CE", "U+9669", "U+70B9">>
    ELSE <<>>

\* _generate_summary(score, grade, risk_count)
GenerateSummary(score, grade, risk_count) ==
    <<"U+8BC4", "U+5206">> \o FormatOneDecimal(score) \o <<"U+5206", "(">>
    \o GradeText(grade) \o <<")">> \o RiskText(risk_count)

----------------------------------------------------------------------------
(* score() *)

\* a call that ended in an exception
Raised(exception) == [status |-> "raised", exception |-> exception]

\* the five rule categories, and the order in which score() evaluates them
Categories == {"must", "nice", "numeric", "enum", "reject"}
EvaluationOrder == <<"must", "nice", "numeric", "enum", "reject">>

\* the evaluator call of a category, as score() makes it
Evaluate(category, r, c) ==
    CASE category = "must" -> EvaluateSkills(c, r.must_skills, r.must_weight_multiplier)
      [] category = "nice" -> EvaluateSkills(c, r.nice_skills, r.nice_weight_multiplier)
      [] category = "numeric" -> EvaluateNumericRules(r, c)
      [] category = "enum" -> EvaluateEnumRules(r, c)
      [] category = "reject" -> EvaluateRejectRules(r, c)

\* an engine whose evaluators give up once the reject evaluator has matched
RunEvaluatorShortCircuit(locals, category, r, c) ==
    LET stop == "reject" \in DOMAIN locals /\ locals["reject"].matched # <<>>
        seen == IF stop
                THEN [r EXCEPT !.must_skills = <<>>, !.nice_skills = <<>>,
                               !.numeric_rules = <<>>, !.enum_rules = <<>>]
                ELSE r
    IN  (category :> Evaluate(category, seen, c)) @@ locals

\* one evaluator call of score(): the results of the category are bound to a
\* local variable; the results already bound are not read
RunEvaluator(locals, category, r, c) == (category :> Evaluate(category, r, c)) @@ locals

\* the evaluator calls of score() made in the given order
RECURSIVE EvaluateInOrder(_, _, _, _, _)
EvaluateInOrder(locals, order, i, r, c) ==
    IF i > Len(order) THEN locals
    ELSE EvaluateInOrder(RunEvaluator(locals, order[i], r, c), order, i + 1, r, c)

\* score() after its evaluator calls: total, grade, risks and the result
Assemble(r, c, must_results, nice_results, numeric_results, enum_results, reject_results) ==
    LET total_score == TotalScore(must_results.score, nice_results.score,
                                  numeric_results.score, enum_results.score,
                                  reject_results.penalty)
        grade == DetermineGrade(total_score, r.grade_thresholds)
        risks == IdentifyRisks(r, c, must_results, reject_results, total_score)
    IN  IF ~WorkYearsComparable(c) THEN Raised("TypeError")
        ELSE [status |-> "returned",
              total_score |-> Round1(total_score),
              grade |-> grade,
              must_score |-> Round1(must_results.score),
              nice_score |-> Round1(nice_results.score),
              numeric_score |-> Round1(numeric_results.score),
              enum_score |-> Round1(enum_results.score),
              reject_penalty |-> Round1(reject_results.penalty),
              matched_must |-> must_results.matched,
              matched_nice |-> nice_results.matched,
              matched_numeric |-> numeric_results.matched,
              matched_enum |-> enum_results.matched,
              matched_reject |-> reject_results.matched,
              missing_must |-> must_results.missing,
              missing_nice |-> nice_results.missing,
              risks |-> risks,
              explanation |-> GenerateExplanation(r, total_score, grade, must_results,
                                                  nice_results, reject_results, risks),
              summary |-> GenerateSummary(total_score, grade, Len(risks)),
              rule_version |-> r.version]

\* score(candidate) with the evaluator calls made in the given order
ScoreInOrder(r, c, order) ==
    LET locals == EvaluateInOrder(<<>>, order, 1, r, c)
    IN  Assemble(r, c, locals["must"], locals["nice"], locals["numeric"],
                 locals["enum"], locals["reject"])

\* score(candidate) on an engine holding rule set r
ScoreOf(r, c) == ScoreInOrder(r, c, EvaluationOrder)

----------------------------------------------------------------------------
(* export_rules() and the rule set built from the exported mapping *)

\* a Python tuple of two numbers
Tuple(lo, hi) == [k |-> "tuple", n |-> 0, s |-> <<lo, hi>>]

\* asdict() of a SkillRule, NumericRule, EnumRule, RejectRule, GradeThresholds
AsDictSkill(rule) ==
    [skill |-> rule.skill, weight |-> rule.weight, type |-> rule.type,
     pattern |-> IF rule.pattern.present THEN Str(rule.pattern.text) ELSE None]
AsDictNumeric(rule) ==
    [field |-> rule.field, operator |-> rule.operator,
     value |-> IF rule.operator = "range" THEN Tuple(rule.lo, rule.hi) ELSE Num(rule.lo),
     weight |-> rule.weight, label |-> rule.label]
AsDictEnum(rule) ==
    [field |-> rule.field, values |-> rule.values, weight |-> rule.weight,
     label |-> rule.label]
AsDictReject(rule) == [keyword |-> rule.keyword, penalty |-> rule.penalty]
AsDictThresholds(t) == [A |-> t.A, B |-> t.B, C |-> t.C, D |-> t.D]

\* asdict(self.rules) of a validated rule set; created_at and description,
\* which no evaluator reads, are left out of the model
AsDict(r) ==
    [version |-> r.version,
     must_skills |-> [i \in 1..Len(r.must_skills) |-> AsDictSkill(r.must_skills[i])],
     nice_skills |-> [i \in 1..Len(r.nice_skills) |-> AsDictSkill(r.nice_skills[i])],
     numeric_rules |-> [i \in 1..Len(r.numeric_rules) |-> AsDictNumeric(r.numeric_rules[i])],
     enum_rules |-> [i \in 1..Len(r.enum_rules) |-> AsDictEnum(r.enum_rules[i])],
     reject_rules |-> [i \in 1..Len(r.reject_rules) |-> AsDictReject(r.reject_rules[i])],
     grade_thresholds |-> AsDictThresholds(r.grade_thresholds),
     must_weight_multiplier |-> r.must_weight_multiplier,
     nice_weight_multiplier |-> r.nice_weight_multiplier]

\* self.rules.version
GetVersion(r) == r.version

NoExport == [version |-> <<>>, status |-> "none"]

\* ScoringRules(**exported): the dataclass constructor stores every value of
\* the mapping as it comes, so grade_thresholds and the rules of the five
\* lists of the rebuilt rule set are the dicts of the mapping
ScoringRulesFromMapping(m) ==
    [version |-> m.version,
     must_skills |-> m.must_skills,
     nice_skills |-> m.nice_skills,
     numeric_rules |-> m.numeric_rules,
     enum_rules |-> m.enum_rules,
     reject_rules |-> m.reject_rules,
     grade_thresholds |-> m.grade_thresholds,
     must_weight_multiplier |-> m.must_weight_multiplier,
     nice_weight_multiplier |-> m.nice_weight_multiplier]

\* _validate_rules on a rule set whose grade_thresholds is a dict: "" when it
\* returns, else the exception it raises.  A dict is falsy only when empty,
\* and thresholds.A on a dict raises AttributeError
ValidateRebuiltRules(r) ==
    IF r.version = <<>> THEN "ValueError: Rule version is required"
    ELSE IF DOMAIN r.grade_thresholds = {} THEN "ValueError: Grade thresholds are required"
    ELSE "AttributeError: 'dict' object has no attribute 'A'"

\* ScoringEngine(ScoringRules(**exported)): the outcome of the constructor
ConstructFromMapping(m) == ValidateRebuiltRules(ScoringRulesFromMapping(m))

\* ScoringEngine(ScoringRules(**exported)).score(c): a result when the
\* constructor returns, and the exception of the constructor otherwise; the
\* scoring of a rule set of dicts is never reached, _validate_rules raising
\* on every mapping
ScoreRebuilt(m, c) == Raised(ConstructFromMapping(m))

\* the callers of score()
Callers == 1..MaxCalls

----------------------------------------------------------------------------
(* The PDF extraction service (pdf-extractor/app.py).  A PDF is described  *)
(* by what PyMuPDF does with it: whether fitz.open succeeds, the text      *)
(* get_text() returns for each page, the page whose get_text() raises (0   *)
(* for none) and the exception class raised when something does.           *)

\* MIN_TEXT_LENGTH = int(os.getenv('MIN_TEXT_LENGTH', '100'))
DefaultMinTextLength == 100
MinTextLengthChoices == {0, 2, 3, DefaultMinTextLength}

\* the characters str.strip() removes, as far as the page texts use them
Whitespace == {" ", "\n"}

\* text.strip()
RECURSIVE StripLeft(_)
StripLeft(text) ==
    IF text = <<>> \/ Head(text) \notin Whitespace THEN text ELSE StripLeft(Tail(text))
RECURSIVE StripRight(_)
StripRight(text) ==
    IF text = <<>> \/ text[Len(text)] \notin Whitespace THEN text
    ELSE StripRight(SubSeq(text, 1, Len(text) - 1))
Strip(text) == StripRight(StripLeft(text))

\* '\n\n'.join(page_texts)
RECURSIVE JoinPages(_)
JoinPages(page_texts) ==
    IF page_texts = <<>> THEN <<>>
    ELSE IF Len(page_texts) = 1 THEN page_texts[1]
    ELSE page_texts[1] \o <<"\n", "\n">> \o JoinPages(Tail(page_texts))

\* total_chars after the loop over the pages: the sum of len(text.strip())
RECURSIVE TotalChars(_)
TotalChars(page_texts) ==
    IF page_texts = <<>> THEN 0
    ELSE Len(Strip(page_texts[1])) + TotalChars(Tail(page_texts))

\* the texts get_text() returns in the model
PageTextPool ==
    {<<>>, <<" ">>, <<"a">>, <<" ", "a", "\n">>, <<"a", "b">>, <<"a", " ", "b">>}

ExceptionClasses == {"FileDataError", "RuntimeError"}

PdfFiles ==
    UNION {{[opens |-> o, pages |-> ps, fails_at |-> f, exception |-> e] :
               o \in BOOLEAN, f \in 0..Len(ps), e \in ExceptionClasses} :
           ps \in SeqsUpTo(PageTextPool, MaxPages)}

\* len(doc) on the document that doc.close() has closed: PyMuPDF refuses the
\* page count of a closed document with ValueError('document closed'); the
\* library is not part of the sources, so both outcomes are kept
LenOfClosedOutcomes == {"raises", "counts"}

\* the record of the two except clauses
FailedRecord(exception) ==
    [ok |-> FALSE, text |-> <<>>, page_texts |-> <<>>, pages |-> 0, chars |-> 0,
     hint |-> IF exception = "FileDataError"
              THEN <<"Invalid or corrupted PDF file">>
              ELSE <<"Extraction error: ", exception>>,
     status |-> "failed"]

\* status and hint from total_chars
ExtractionStatus(total_chars, min_text_length) ==
    IF total_chars = 0 THEN "needs_review"
    ELSE IF total_chars < min_text_length THEN "needs_review"
    ELSE "success"
ExtractionHint(total_chars, min_text_length) ==
    IF total_chars = 0
    THEN <<"No text extracted - possibly a scanned image or encrypted PDF">>
    ELSE IF total_chars < min_text_length
    THEN <<"Very short text extracted (">> \o NatToStr(total_chars)
           \o <<" chars) - may be scanned or have special encoding">>
    ELSE <<"Text extracted successfully">>

\* extract_text_from_pdf(pdf_path)
ExtractTextFromPdf(pdf, min_text_length, len_of_closed) ==
    IF ~pdf.opens THEN FailedRecord(pdf.exception)
    ELSE IF pdf.fails_at \in 1..Len(pdf.pages) THEN FailedRecord(pdf.exception)
    ELSE IF len_of_closed = "raises" THEN FailedRecord("ValueError")
    ELSE LET page_texts == pdf.pages
             total_chars == TotalChars(page_texts)
             status == ExtractionStatus(total_chars, min_text_length)
         IN  [ok |-> status = "success",
              text |-> JoinPages(page_texts),
              page_texts |-> page_texts,
              pages |-> Len(pdf.pages),
              chars |-> total_chars,
              hint |-> ExtractionHint(total_chars, min_text_length),
              status |-> status]

NoPdf == [opens |-> FALSE, pages |-> <<>>, fails_at |-> 0, exception |-> "none"]
NoRecord == [status |-> "none"]
NoExtraction(min_text_length) ==
    [min_text_length |-> min_text_length, pdf |-> NoPdf,
     len_of_closed |-> "none", record |-> NoRecord]

----------------------------------------------------------------------------
(* The state machine *)

\* a caller that is not inside score()
IdleCall == [pc |-> 0, candidate |-> NoCandidate, locals |-> <<>>, result |-> NoResult]

Init ==
    /\ rules = NoRules
    /\ engine = "none"
    /\ error = ""
    /\ candidate = NoCandidate
    /\ result = NoResult
    /\ calls = [w \in Callers |-> IdleCall]
    /\ exported = NoExport
    /\ extraction = NoExtraction(DefaultMinTextLength)

\* engine = ScoringEngine(rs): self.rules = rules; self._validate_rules()
Construct(rs) ==
    /\ engine = "none"
    /\ rules' = rs
    /\ error' = ValidateRules(rs)
    /\ engine' = IF ValidateRules(rs) = "" THEN "ready" ELSE "failed"
    /\ UNCHANGED <<candidate, result, calls, exported, extraction>>

\* result = engine.score(c)
Score(c) ==
    /\ engine = "ready"
    /\ result = NoResult
    /\ candidate' = c
    /\ result' = ScoreOf(rules, c)
    /\ UNCHANGED <<rules, engine, error, calls, exported, extraction>>

\* the caller is done with the result of the last call; the engine is kept
DropResult ==
    /\ result # NoResult
    /\ candidate' = NoCandidate
    /\ result' = NoResult
    /\ UNCHANGED <<rules, engine, error, calls, exported, extraction>>

\* exported = engine.export_rules()
ExportRules ==
    /\ engine = "ready"
    /\ exported = NoExport
    /\ exported' = AsDict(rules)
    /\ UNCHANGED <<rules, engine, error, candidate, result, calls, extraction>>

Next ==
    \/ \E rs \in RuleSets : Construct(rs)
    \/ \E c \in Candidates : Score(c)
    \/ DropResult
    \/ ExportRules

Spec == Init /\ [][Next]_vars

----------------------------------------------------------------------------
(* score() on a small set of inputs, for the properties that range over
   every evaluation order *)

\* rule sets with rules in all five categories
SmallRuleSets ==
    {BaseRules,
     [BaseRules EXCEPT
         !.must_skills = <<Regex(<<"c">>, 2, Pattern(<<"b", "|", "C">>)), Keyword(<<"A">>, 3)>>,
         !.nice_skills = <<Regex(<<"d">>, 2, Pattern(<<"a", "(">>)), Keyword(<<"A">>, 1)>>,
         !.reject_rules = <<RejectRule(<<"a">>, 120), RejectRule(<<"X">>, 20)>>],
     [BaseRules EXCEPT
         !.numeric_rules = <<NumericRule("work_years", "range", 3, 7, 2, "exp3to7"),
                             NumericRule("level", ">", 3, 3, 4, "senior")>>,
         !.enum_rules = <<EnumRule("work_years", {<<"0">>, <<"1">>}, 1, "junior"),
                          EnumRule("level", {<<"5">>, <<"s", "r">>}, 2, "level")>>]}

\* a strong, a rejected, a middling and a sparse candidate
SmallCandidates ==
    {Candidate(Num(5), Str(<<"m", "s">>),
               <<<<"A">>, <<"B", "c">>, <<"C">>, <<"D">>, <<"e">>, <<"f">>>>,
               <<"d", "E", "f", "b", "C", "a">>, NoExtra),
     RejectedCandidate,
     Candidate(Num(3), Str(<<"B", "s">>), <<<<"A">>, <<"c">>>>, <<"b", "c">>,
               Extra("level", Num(5))),
     Candidate(None, None, <<>>, <<>>, NoExtra)}

OrderCandidates ==
    SmallCandidates \cup {c \in TextCandidates : Len(c.raw_text) >= 2}

NextOrders ==
    \/ \E rs \in SmallRuleSets : Construct(rs)
    \/ \E c \in OrderCandidates : Score(c)
    \/ DropResult

SpecOrders == Init /\ [][NextOrders]_vars

----------------------------------------------------------------------------
(* Several callers inside score() on one engine: each evaluator call and the
   assembling of the result is a step of its own, and the steps of different
   callers interleave *)

\* caller w enters score(c): start_time is taken, no evaluator has run
Call(w, c) ==
    /\ engine = "ready"
    /\ calls[w].pc = 0
    /\ calls' = [calls EXCEPT ![w] = [pc |-> 1, candidate |-> c, locals |-> <<>>,
                                      result |-> NoResult]]
    /\ UNCHANGED <<rules, engine, error, candidate, result, exported, extraction>>

\* an evaluator that reverses the must_skills list of the engine in place
EvaluatorStepReversing(w) ==
    /\ calls[w].pc \in 1..Len(EvaluationOrder)
    /\ calls' = [calls EXCEPT
                    ![w].pc = @ + 1,
                    ![w].locals = RunEvaluator(@, EvaluationOrder[calls[w].pc], rules,
                                               calls[w].candidate)]
    /\ rules' = [rules EXCEPT
                    !.must_skills = [i \in 1..Len(@) |-> @[Len(@) + 1 - i]]]
    /\ UNCHANGED <<engine, error, candidate, result, exported, extraction>>

\* caller w makes its next evaluator call: self.rules and the candidate are
\* read, the results go to a local variable of the call
EvaluatorStep(w) ==
    /\ calls[w].pc \in 1..Len(EvaluationOrder)
    /\ calls' = [calls EXCEPT
                    ![w].pc = @ + 1,
                    ![w].locals = RunEvaluator(@, EvaluationOrder[calls[w].pc], rules,
                                               calls[w].candidate)]
    /\ UNCHANGED <<rules, engine, error, candidate, result, exported, extraction>>

\* caller w computes total, grade and risks from its locals and returns
Return(w) ==
    /\ calls[w].pc = Len(EvaluationOrder) + 1
    /\ calls' = [calls EXCEPT
                    ![w].pc = @ + 1,
                    ![w].locals = <<>>,
                    ![w].result =
                        LET locals == calls[w].locals
                        IN  Assemble(rules, calls[w].candidate, locals["must"],
                                     locals["nice"], locals["numeric"], locals["enum"],
                                     locals["reject"])]
    /\ UNCHANGED <<rules, engine, error, candidate, result, exported, extraction>>

\* caller w is done with its result and may call again
Forget(w) ==
    /\ calls[w].pc = Len(EvaluationOrder) + 2
    /\ calls' = [calls EXCEPT ![w] = IdleCall]
    /\ UNCHANGED <<rules, engine, error, candidate, result, exported, extraction>>

NextCalls ==
    \/ \E rs \in SmallRuleSets : Construct(rs)
    \/ \E w \in Callers, c \in SmallCandidates : Call(w, c)
    \/ \E w \in Callers : EvaluatorStep(w)
    \/ \E w \in Callers : Return(w)
    \/ \E w \in Callers : Forget(w)

SpecCalls == Init /\ [][NextCalls]_vars

----------------------------------------------------------------------------
(* The extraction service on its own: the service starts with the          *)
(* MIN_TEXT_LENGTH of its environment and extracts one PDF after another.  *)

InitExtract ==
    /\ rules = NoRules
    /\ engine = "none"
    /\ error = ""
    /\ candidate = NoCandidate
    /\ result = NoResult
    /\ calls = [w \in Callers |-> IdleCall]
    /\ exported = NoExport
    /\ \E m \in MinTextLengthChoices : extraction = NoExtraction(m)

\* record = extract_text_from_pdf(pdf)
ExtractText(pdf, len_of_closed) ==
    /\ extraction.record = NoRecord
    /\ extraction' =
         [extraction EXCEPT
            !.pdf = pdf,
            !.len_of_closed = len_of_closed,
            !.record = ExtractTextFromPdf(pdf, extraction.min_text_length, len_of_closed)]
    /\ UNCHANGED <<rules, engine, error, candidate, result, calls, exported>>

\* the caller is done with the record; the service is kept
DropRecord ==
    /\ extraction.record # NoRecord
    /\ extraction' = NoExtraction(extraction.min_text_length)
    /\ UNCHANGED <<rules, engine, error, candidate, result, calls, exported>>

NextExtract ==
    \/ \E pdf \in PdfFiles, o \in LenOfClosedOutcomes : ExtractText(pdf, o)
    \/ DropRecord

SpecExtract == InitExtract /\ [][NextExtract]_vars

\* the last score() call returned a ScoringResult
Returned == result.status = "returned"

----------------------------------------------------------------------------
(* Helpers of the properties *)

\* the last score() call ended, by a return or by an exception
Scored == result # NoResult

\* the sum of f[i] over the indices in I
RECURSIVE SumOver(_, _)
SumOver(f, I) ==
    IF I = {} THEN 0
    ELSE LET i == CHOOSE j \in I : TRUE IN f[i] + SumOver(f, I \ {i})

\* the elements of xs at the indices in I, in the order of xs
RECURSIVE Pick(_, _, _)
Pick(xs, I, i) ==
    IF i > Len(xs) THEN <<>>
    ELSE (IF i \in I THEN <<xs[i]>> ELSE <<>>) \o Pick(xs, I, i + 1)

\* the (name, weight) pairs of a list of skill rules, matched items or missing items
RuleKeys(skill_rules) ==
    [i \in 1..Len(skill_rules) |-> <<skill_rules[i].skill, skill_rules[i].weight>>]
ItemKeys(items) == [i \in 1..Len(items) |-> <<items[i].name, items[i].weight>>]

\* the indices of the rules of skill_rules that match the candidate
MatchedIndices(skill_rules, c) ==
    {i \in 1..Len(skill_rules) :
        MatchSkill(skill_rules[i], LowerAll(c.skills), Lower(c.raw_text)).matched}

\* x brought into [0, 100]
Clamp(x) == IF x < 0 THEN 0 ELSE IF x > 100 THEN 100 ELSE x

\* the sum of the four positive category scores of the result
PositiveSum ==
    result.must_score + result.nice_score + result.numeric_score + result.enum_score

----------------------------------------------------------------------------
(* C1 *)

\* C1: for every rule set the constructor accepted and every candidate, the
\* total_score of a returned result lies in 0..100.
C1_TotalScoreInRange ==
    Returned => (0 <= result.total_score /\ result.total_score <= 100)

\* the category scores add up to more than 100 and the total is capped at 100
C1_Witness ==
    /\ Returned
    /\ PositiveSum - result.reject_penalty > 100
    /\ result.total_score = 100

(* C2 *)

\* C2: total_score is the sum of the four positive category scores minus the
\* reject penalty, clamped to [0, 100] once, after the subtraction.
C2_TotalIsClampedDifference ==
    Returned => result.total_score = Clamp(PositiveSum - result.reject_penalty)

\* a positive sum above 100 that the penalty brings below the cap
C2_Witness ==
    /\ Returned
    /\ PositiveSum > 100
    /\ result.reject_penalty > 0
    /\ result.total_score = PositiveSum - result.reject_penalty
    /\ result.total_score < 100

(* C3 *)

\* the threshold of a grade
ThresholdOf(t, grade) ==
    CASE grade = "A" -> t.A [] grade = "B" -> t.B [] grade = "C" -> t.C [] grade = "D" -> t.D

\* the grades above a grade
HigherGrades(grade) ==
    CASE grade = "A" -> {}
      [] grade = "B" -> {"A"}
      [] grade = "C" -> {"A", "B"}
      [] grade = "D" -> {"A", "B", "C"}

\* C3 as claimed: the threshold of the returned grade, D included, is at most
\* total_score, and total_score is below the threshold of every higher grade.
C3_GradeBandIncludingD ==
    Returned =>
        /\ ThresholdOf(rules.grade_thresholds, result.grade) <= result.total_score
        /\ \A g \in HigherGrades(result.grade) :
               result.total_score < ThresholdOf(rules.grade_thresholds, g)

\* C3 amended: total_score is below the threshold of every grade above the
\* returned one, and at or above the threshold of the returned grade when that
\* grade is A, B or C; grade D is every score below threshold C, whatever
\* gradeThresholds.D is.
C3_GradeBand ==
    Returned =>
        /\ result.grade \in {"A", "B", "C", "D"}
        /\ result.grade # "D" =>
               ThresholdOf(rules.grade_thresholds, result.grade) <= result.total_score
        /\ \A g \in HigherGrades(result.grade) :
               result.total_score < ThresholdOf(rules.grade_thresholds, g)

\* a score below gradeThresholds.D, graded D
C3_Witness ==
    /\ Returned
    /\ result.grade = "D"
    /\ result.total_score < rules.grade_thresholds.D

(* C4 *)

\* C4 for one category: the category score is the sum of weight * multiplier
\* over exactly the rules that match the candidate, and the sum of the score
\* fields of the matched list.
CategoryScoreIsWeightedSum(skill_rules, multiplier, category_score, matched) ==
    /\ category_score =
           SumOver([i \in 1..Len(skill_rules) |-> skill_rules[i].weight * multiplier],
                   MatchedIndices(skill_rules, candidate))
    /\ category_score =
           SumOver([i \in 1..Len(matched) |-> matched[i].score], 1..Len(matched))

\* C4: must_score and nice_score are weighted sums over the matched rules.
C4_SkillScores ==
    Returned =>
        /\ CategoryScoreIsWeightedSum(rules.must_skills, rules.must_weight_multiplier,
                                      result.must_score, result.matched_must)
        /\ CategoryScoreIsWeightedSum(rules.nice_skills, rules.nice_weight_multiplier,
                                      result.nice_score, result.matched_nice)

\* weights 3+2+2 at multiplier 10 and 2+1+1 at multiplier 5, all matched: 70 and 20
C4_Witness ==
    /\ Returned
    /\ rules = BaseRules
    /\ Len(result.matched_must) = 3
    /\ Len(result.matched_nice) = 3
    /\ result.must_score = 70
    /\ result.nice_score = 20

(* C5 *)

\* matched and missing split skill_rules: some set of rule indices gives the
\* matched list, the other indices give the missing list, both in rule order
SplitsInOrder(skill_rules, matched, missing) ==
    /\ Len(matched) + Len(missing) = Len(skill_rules)
    /\ \E I \in SUBSET (1..Len(skill_rules)) :
           /\ ItemKeys(matched) = Pick(RuleKeys(skill_rules), I, 1)
           /\ ItemKeys(missing) =
                  Pick(RuleKeys(skill_rules), (1..Len(skill_rules)) \ I, 1)

\* C5: every must rule is in exactly one of matched_must and missing_must, and
\* every nice rule in exactly one of matched_nice and missing_nice, in rule order.
C5_MatchedAndMissingPartition ==
    Returned =>
        /\ SplitsInOrder(rules.must_skills, result.matched_must, result.missing_must)
        /\ SplitsInOrder(rules.nice_skills, result.matched_nice, result.missing_nice)

\* some must rules matched, some are missing, and a missing one comes first
C5_Witness ==
    /\ Returned
    /\ Len(result.matched_must) >= 1
    /\ Len(result.missing_must) >= 1
    /\ Len(rules.must_skills) >= 2
    /\ ~(1 \in MatchedIndices(rules.must_skills, candidate))

(* C6 *)

\* the indices of the reject rules whose keyword occurs in the text, case ignored
RejectIndices(reject_rules, c) ==
    {i \in 1..Len(reject_rules) :
        IsSubstring(Lower(reject_rules[i].keyword), Lower(c.raw_text))}

\* C6: reject_penalty is the sum of the penalties of exactly the reject rules
\* whose keyword occurs in raw_text, case ignored, and matched_reject lists
\* their keywords in rule order, one per matched rule.
C6_RejectPenaltyIsSum ==
    Returned =>
        LET hits == RejectIndices(rules.reject_rules, candidate) IN
        /\ result.reject_penalty =
               SumOver([i \in 1..Len(rules.reject_rules) |->
                            rules.reject_rules[i].penalty], hits)
        /\ result.matched_reject =
               Pick([i \in 1..Len(rules.reject_rules) |->
                         rules.reject_rules[i].keyword], hits, 1)

\* two reject rules hit, through keywords whose case differs from the text
C6_Witness ==
    /\ Returned
    /\ rules.reject_rules = BaseReject
    /\ result.matched_reject = <<<<"X">>, <<"y">>>>
    /\ result.reject_penalty = 35
    /\ ~IsSubstring(<<"X">>, candidate.raw_text)

(* C7 *)

\* A >= B >= C >= D
NonIncreasing(t) == t.A >= t.B /\ t.B >= t.C /\ t.C >= t.D

\* C7 as claimed: construction fails exactly when the version is empty or the
\* thresholds of the rule set violate A >= B >= C >= D.
C7_FailsIffVersionOrOrder ==
    engine # "none" =>
        (engine = "failed" <=>
            \/ rules.version = <<>>
            \/ rules.grade_thresholds.present /\ ~NonIncreasing(rules.grade_thresholds))

\* C7 amended: construction fails exactly when the version is empty, or the
\* rule set has no grade thresholds, or its thresholds violate A >= B >= C >= D;
\* a failed construction carries an error and its engine never scores.
C7_ConstructionFailsIff ==
    engine # "none" =>
        /\ engine = "failed" <=>
               \/ rules.version = <<>>
               \/ ~rules.grade_thresholds.present
               \/ ~NonIncreasing(rules.grade_thresholds)
        /\ engine = "failed" => (error # "" /\ result = NoResult)
        /\ engine = "ready" => error = ""

\* construction failed on a rule set with a version and without grade thresholds
C7_Witness ==
    /\ engine = "failed"
    /\ rules.version # <<>>
    /\ ~rules.grade_thresholds.present
    /\ error = "Grade thresholds are required"

(* C8 *)

\* C8: on an engine whose rule set passed validation, score() never raises,
\* however sparse the candidate (work_years being None included): every call
\* returns a complete ScoringResult.
C8_ScoreNeverRaises ==
    (engine = "ready" /\ Scored) => Returned

(* C9 *)

\* a regex rule whose pattern does not compile
Malformed(rule) ==
    /\ rule.type = "regex"
    /\ rule.pattern.present
    /\ \E i \in 1..Len(rule.pattern.text) : rule.pattern.text[i] = "("

MalformedIndices(skill_rules) ==
    {i \in 1..Len(skill_rules) : Malformed(skill_rules[i])}

\* the malformed rules of skill_rules are all in missing and add nothing:
\* matched and the category score come from well-formed rules alone
MalformedAreMissing(skill_rules, multiplier, category_score, matched, missing) ==
    \E I \in SUBSET ((1..Len(skill_rules)) \ MalformedIndices(skill_rules)) :
        /\ ItemKeys(matched) = Pick(RuleKeys(skill_rules), I, 1)
        /\ ItemKeys(missing) = Pick(RuleKeys(skill_rules), (1..Len(skill_rules)) \ I, 1)
        /\ \A i \in 1..Len(matched) : matched[i].matched_via # "none"
        /\ category_score =
               SumOver([i \in 1..Len(skill_rules) |-> skill_rules[i].weight * multiplier], I)

\* C9: a malformed regex pattern never makes score() raise (a call raises only
\* on a work_years that is not a number, with or without such a rule); the
\* rule is not matched, adds 0 to the score and its skill is in the missing
\* list of its category.
C9_MalformedRegexIsMissing ==
    Scored =>
        /\ result.status = "raised" => candidate.work_years.k # "num"
        /\ Returned =>
               /\ MalformedAreMissing(rules.must_skills, rules.must_weight_multiplier,
                                      result.must_score, result.matched_must,
                                      result.missing_must)
               /\ MalformedAreMissing(rules.nice_skills, rules.nice_weight_multiplier,
                                      result.nice_score, result.matched_nice,
                                      result.missing_nice)

\* a malformed must rule reported missing although its skill name is in the text
C9_Witness ==
    /\ Returned
    /\ \E i \in MalformedIndices(rules.must_skills) :
           /\ IsSubstring(Lower(rules.must_skills[i].skill), Lower(candidate.raw_text))
           /\ \E j \in 1..Len(result.missing_must) :
                  result.missing_must[j].name = rules.must_skills[i].skill
    /\ result.must_score = 0

(* C10 *)

\* C10: with an empty skills list and keyword must rules, every must rule is
\* missing and none is matched, whatever raw_text holds.
C10_EmptySkillsAllMissing ==
    (/\ Returned
     /\ candidate.skills = <<>>
     /\ rules.must_skills # <<>>
     /\ \A i \in 1..Len(rules.must_skills) : rules.must_skills[i].type = "keyword")
    => (/\ Len(result.matched_must) = 0
        /\ Len(result.missing_must) = Len(rules.must_skills))

(* C11 *)

\* C11: whenever a result reports at least one missing must skill while some
\* must rule is matched, the risks list of the result is not empty.
C11_MissingMustIsARisk ==
    (/\ Returned
     /\ Len(result.missing_must) >= 1
     /\ Len(result.matched_must) >= 1)
    => result.risks # <<>>

(* C12 *)

\* the risks list holds a risk of the given type and severity
HasRisk(type, severity) ==
    \E i \in 1..Len(result.risks) : result.risks[i] = RiskItem(type, severity)

\* the risk types of the risks list
RiskTypes == {result.risks[i].type : i \in 1..Len(result.risks)}

\* C12: the risks of a result are exactly: reject_keyword (high) iff a reject
\* rule matched; missing_must (high) iff a missing must skill has weight >= 3;
\* low_experience iff work_years < 2, high when work_years is 0 and medium
\* otherwise; other iff total_score < gradeThresholds.C. Each type occurs at
\* most once, no other type (low_education, missing nice skills) occurs, and
\* a result with a reject match and a total below C has at least two risks,
\* reject_keyword among them.
C12_RisksExactly ==
    Returned =>
        /\ HasRisk("reject_keyword", "high") <=> result.matched_reject # <<>>
        /\ HasRisk("missing_must", "high") <=>
               \E j \in 1..Len(result.missing_must) : result.missing_must[j].weight >= 3
        /\ HasRisk("low_experience", "high") <=> candidate.work_years.n = 0
        /\ HasRisk("low_experience", "medium") <=>
               (candidate.work_years.n < 2 /\ candidate.work_years.n # 0)
        /\ "other" \in RiskTypes <=> result.total_score < rules.grade_thresholds.C
        /\ RiskTypes \subseteq {"reject_keyword", "missing_must", "low_experience", "other"}
        /\ \A i \in 1..Len(result.risks) :
               result.risks[i].type \in {"reject_keyword", "missing_must"}
                   => result.risks[i].severity = "high"
        /\ Len(result.risks) = Cardinality(RiskTypes)
        /\ (result.matched_reject # <<>> /\ result.total_score < rules.grade_thresholds.C)
               => (Len(result.risks) >= 2 /\ "reject_keyword" \in RiskTypes)

\* the rejected candidate of the tests: all four risks at once, although nice
\* skills are missing too
C12_Witness ==
    /\ Returned
    /\ result.matched_reject # <<>>
    /\ result.total_score < rules.grade_thresholds.C
    /\ candidate.work_years.n = 0
    /\ result.missing_nice # <<>>
    /\ [i \in 1..Len(result.risks) |-> result.risks[i].type]
           = <<"reject_keyword", "missing_must", "low_experience", "other">>

(* C13 *)

\* the comparison the operator of a numeric rule stands for, on the number x
OperatorHolds(rule, x) ==
    \/ rule.operator = ">=" /\ x >= rule.lo
    \/ rule.operator = "<=" /\ x <= rule.lo
    \/ rule.operator = ">" /\ x > rule.lo
    \/ rule.operator = "<" /\ x < rule.lo
    \/ rule.operator = "=" /\ x = rule.lo
    \/ rule.operator = "range" /\ x >= rule.lo /\ x <= rule.hi

\* the numeric rules whose field resolves to a number satisfying the operator
NumericHits ==
    {i \in 1..Len(rules.numeric_rules) :
        LET rule == rules.numeric_rules[i]
            field_value == ResolveField(candidate, rule.field)
        IN  /\ field_value.k # "none"
            /\ ToFloat(field_value).ok
            /\ OperatorHolds(rule, ToFloat(field_value).n)}

\* C13: a numeric rule whose field resolves to a number x is matched iff x
\* satisfies the comparison of its operator (range includes both bounds); the
\* matched rules are listed in rule order, each with score weight * 5
\* whatever the must and nice multipliers are, numeric_score is the sum of
\* these scores, and an unmatched rule is in no list and adds nothing.
C13_NumericRuleMatches ==
    Returned =>
        /\ [i \in 1..Len(result.matched_numeric) |->
                <<result.matched_numeric[i].name, result.matched_numeric[i].score>>]
               = Pick([i \in 1..Len(rules.numeric_rules) |->
                          <<rules.numeric_rules[i].label,
                            rules.numeric_rules[i].weight * 5>>],
                      NumericHits, 1)
        /\ result.numeric_score =
               SumOver([i \in 1..Len(rules.numeric_rules) |->
                           rules.numeric_rules[i].weight * 5], NumericHits)

\* a range rule matched by a candidate sitting on its upper bound
C13_Witness ==
    /\ Returned
    /\ Len(rules.numeric_rules) = 1
    /\ rules.numeric_rules[1].operator = "range"
    /\ rules.numeric_rules[1].field = "work_years"
    /\ candidate.work_years = Num(rules.numeric_rules[1].hi)
    /\ rules.numeric_rules[1].lo < rules.numeric_rules[1].hi
    /\ Len(result.matched_numeric) = 1
    /\ result.numeric_score = rules.numeric_rules[1].weight * 5

(* C14 *)

\* the resolved value of the field is present: a number, or a string that is
\* not empty
Present(field_value) ==
    \/ field_value.k = "num"
    \/ field_value.k = "str" /\ field_value.s # <<>>

\* the enum rule is in matched_enum with weight * 5 and the provenance
\* "<field>=<value>"
EnumMatched(rule, field_value) ==
    \E j \in 1..Len(result.matched_enum) :
        result.matched_enum[j] =
            MatchedItem(rule.label, rule.weight, rule.weight * 5, <<rule.field, field_value>>)

\* C14: an enum rule whose resolved field value is present, the number 0
\* included, is matched iff the stringified value equals some entry of
\* rule.values without regard to case; a matched rule contributes weight * 5
\* with the provenance "<field>=<value>".
C14_EnumRuleMatches ==
    Returned =>
        \A i \in 1..Len(rules.enum_rules) :
            LET rule == rules.enum_rules[i]
                field_value == ResolveField(candidate, rule.field)
            IN  Present(field_value) =>
                   /\ EnumMatched(rule, field_value) <=>
                          \E v \in rule.values : Lower(v) = Lower(ToStr(field_value))
                   /\ (~EnumMatched(rule, field_value)) =>
                          \A j \in 1..Len(result.matched_enum) :
                              result.matched_enum[j].name # rule.label

(* C15 *)

\* the value the two-tier policy gives a field: the fixed attribute of that
\* name when it supplies a value, extra_fields[field] otherwise
TwoTier(c, field) ==
    LET fixed == GetAttr(c, field)
        extra == IF field \in DOMAIN c.extra_fields THEN c.extra_fields[field] ELSE None
    IN  IF fixed # None THEN fixed ELSE extra

\* the items of a matched list that carry the label of a rule
ItemsOf(matched, label) == {j \in 1..Len(matched) : matched[j].name = label}

\* C15: numeric and enum rules resolve their field in the same two tiers, the
\* fixed attribute first and extra_fields[field] when the fixed attribute
\* supplies no value: a matched rule carries the value so resolved. A rule
\* whose field is supplied by neither tier, or a numeric rule whose value is
\* not coercible to a number, is in no list and adds nothing to the score;
\* no call raises because of it (a call raises only on a work_years that is
\* not a number).
C15_TwoTierResolution ==
    Scored =>
        /\ result.status = "raised" => candidate.work_years.k # "num"
        /\ Returned =>
            /\ \A i \in 1..Len(rules.numeric_rules) :
                   LET rule == rules.numeric_rules[i]
                       v == TwoTier(candidate, rule.field)
                   IN  /\ (v = None \/ ~ToFloat(v).ok)
                              => ItemsOf(result.matched_numeric, rule.label) = {}
                       /\ \A j \in ItemsOf(result.matched_numeric, rule.label) :
                              result.matched_numeric[j].matched_via
                                  = <<rule.field, Num(ToFloat(v).n)>>
            /\ \A i \in 1..Len(rules.enum_rules) :
                   LET rule == rules.enum_rules[i]
                       v == TwoTier(candidate, rule.field)
                   IN  /\ v = None => ItemsOf(result.matched_enum, rule.label) = {}
                       /\ \A j \in ItemsOf(result.matched_enum, rule.label) :
                              result.matched_enum[j].matched_via = <<rule.field, v>>
            /\ result.numeric_score =
                   SumOver([j \in 1..Len(result.matched_numeric) |->
                               result.matched_numeric[j].score],
                           1..Len(result.matched_numeric))
            /\ result.enum_score =
                   SumOver([j \in 1..Len(result.matched_enum) |->
                               result.matched_enum[j].score],
                           1..Len(result.matched_enum))

\* education is None as a fixed attribute and "Ms" in extra_fields: the enum
\* rule matches on the fallback, the numeric rule on education cannot coerce
\* it, and the numeric rule on level finds it in neither tier
C15_Witness ==
    /\ Returned
    /\ candidate.education = None
    /\ "education" \in DOMAIN candidate.extra_fields
    /\ \E j \in 1..Len(result.matched_enum) :
           result.matched_enum[j].matched_via
               = <<"education", candidate.extra_fields["education"]>>
    /\ \E i \in 1..Len(rules.numeric_rules) : rules.numeric_rules[i].field = "education"
    /\ \E i \in 1..Len(rules.numeric_rules) :
           /\ rules.numeric_rules[i].field = "level"
           /\ "level" \notin DOMAIN candidate.extra_fields
    /\ result.matched_numeric = <<>>
    /\ result.numeric_score = 0

(* C16 *)

\* every order in which the five evaluators can be called
Orders ==
    {order \in [1..5 -> Categories] : \A i, j \in 1..5 : order[i] = order[j] => i = j}

\* C16: the result of score() is the same whatever the order in which the
\* five rule categories are evaluated: every permutation of the evaluator
\* calls gives the scores, lists, total, grade and risks of the result.
C16_OrderIndependent ==
    Scored => \A order \in Orders : ScoreInOrder(rules, candidate, order) = result

\* a result in which all five categories have matched something
C16_Witness ==
    /\ Returned
    /\ result.matched_must # <<>>
    /\ result.matched_nice # <<>>
    /\ result.matched_numeric # <<>>
    /\ result.matched_enum # <<>>
    /\ result.matched_reject # <<>>
    /\ ScoreInOrder(rules, candidate, <<"reject", "enum", "numeric", "nice", "must">>) = result

(* C17 *)

\* the calls of the callers that have returned
Done == {w \in Callers : calls[w].pc = Len(EvaluationOrder) + 2}

\* C17: however the steps of the score() calls of several callers interleave
\* on one engine, no step changes the rule set of the engine or the candidate
\* of a call in flight, and every call returns the result that score() gives
\* the same candidate when run alone on the rule set validated at construction.
C17_CallsDoNotInterfere ==
    [][/\ engine = "ready" => rules' = rules
       /\ \A w \in Callers :
              /\ (calls[w].pc # 0 /\ calls'[w].pc # 0)
                     => calls'[w].candidate = calls[w].candidate
              /\ calls'[w].pc = Len(EvaluationOrder) + 2
                     => calls'[w].result = ScoreOf(rules, calls'[w].candidate)]_vars

\* a caller has returned a result while another, with another candidate, is
\* between two evaluator calls
C17_Witness ==
    \E w, v \in Callers :
        /\ w \in Done
        /\ calls[w].result.status = "returned"
        /\ calls[v].pc \in 2..Len(EvaluationOrder)
        /\ calls[v].candidate # calls[w].candidate

(* C18 *)

\* C18: the mapping export_rules() returns carries the version of the rule
\* set, and the rule set rebuilt from the mapping is accepted by the
\* constructor and gives every candidate the result the exporting engine
\* gives.
C18_ExportRoundTrip ==
    exported # NoExport =>
        /\ exported.version = GetVersion(rules)
        /\ ConstructFromMapping(exported) = ""
        /\ Scored => ScoreRebuilt(exported, candidate) = result

(* C19 *)

\* the length every summary stays below
SummaryBound == 100

\* the summary is one line below the bound that holds the label of the
\* grade and the total score with one decimal
SummaryShortWithLabelAndScore ==
    /\ Len(result.summary) < SummaryBound
    /\ \A i \in 1..Len(result.summary) : result.summary[i] # "\n"
    /\ IsSubstring(<<"(">> \o GradeText(result.grade) \o <<")">>, result.summary)
    /\ IsSubstring(NatToStr(result.total_score) \o <<".", "0", "U+5206">>, result.summary)

\* the summary holds the number of risks of the result
SummaryHasRiskCount ==
    IsSubstring(<<"U+FF0C">> \o NatToStr(Len(result.risks)) \o <<"U+4E2A">>, result.summary)

\* C19 as stated: the summary of every result is a single line shorter than
\* 100 characters that holds the localized label of the grade, the total
\* score and the number of risks.
C19_SummaryAlwaysHasRiskCount ==
    Returned => SummaryShortWithLabelAndScore /\ SummaryHasRiskCount

\* C19: the summary of every result is a single line shorter than 100
\* characters that holds the localized label of the grade and the total
\* score with one decimal; it holds the number of risks when the result has
\* at least one risk, and ends with the grade label, no count printed, when
\* the result has none.
C19_SummaryIsShort ==
    Returned =>
        /\ SummaryShortWithLabelAndScore
        /\ result.risks # <<>> => SummaryHasRiskCount
        /\ result.risks = <<>> =>
               /\ result.summary[Len(result.summary)] = ")"
               /\ \A i \in 1..Len(result.summary) :
                      result.summary[i] \notin {"U+FF0C", "U+4E2A"}

\* a summary among the longest of the model: a three-digit score and a risk
\* count
C19_Witness ==
    /\ Returned
    /\ result.total_score = 100
    /\ result.risks # <<>>
    /\ Len(result.summary) >= 18

(* C20 *)

\* the lowercased skill is an element of the lowercased skills list
InSkillsList(skill, c) == \E k \in 1..Len(c.skills) : Lower(c.skills[k]) = Lower(skill)

\* the lowercased skill occurs in the lowercased raw text
InRawText(skill, c) ==
    LET s == Lower(skill)
        t == Lower(c.raw_text)
    IN  \E k \in 0..(Len(t) - Len(s)) : \A n \in 1..Len(s) : t[k + n] = s[n]

\* the keyword rules of a category against its matched and missing lists (in
\* the rule sets of the model no regex rule shares the skill name of a
\* keyword rule of the same list)
KeywordRulesMatch(skill_rules, matched, missing) ==
    \A i \in 1..Len(skill_rules) :
        skill_rules[i].type = "keyword" =>
            LET skill == skill_rules[i].skill
                hits == {j \in 1..Len(matched) : matched[j].name = skill}
            IN  /\ hits # {} <=> (InSkillsList(skill, candidate) \/ InRawText(skill, candidate))
                /\ hits = {} <=> \E j \in 1..Len(missing) : missing[j].name = skill
                /\ \A j \in hits :
                       matched[j].matched_via =
                           IF InSkillsList(skill, candidate) THEN "skills_list" ELSE "raw_text"

\* C20: a keyword skill rule is matched iff its lowercased skill is an element
\* of the lowercased skills list or a substring of the lowercased raw text;
\* its provenance is skills_list whenever the skills-list test succeeds,
\* raw_text only when that test fails and the text test succeeds, and never
\* regex.
C20_KeywordProvenance ==
    Returned =>
        /\ KeywordRulesMatch(rules.must_skills, result.matched_must, result.missing_must)
        /\ KeywordRulesMatch(rules.nice_skills, result.matched_nice, result.missing_nice)

\* three keyword rules at once: one found in the skills list only, one found
\* in both places and reported as skills_list, one found in the text only
C20_Witness ==
    /\ Returned
    /\ \E i, j, k \in 1..Len(rules.must_skills) :
           /\ \A n \in {i, j, k} : rules.must_skills[n].type = "keyword"
           /\ InSkillsList(rules.must_skills[i].skill, candidate)
           /\ ~InRawText(rules.must_skills[i].skill, candidate)
           /\ InSkillsList(rules.must_skills[j].skill, candidate)
           /\ InRawText(rules.must_skills[j].skill, candidate)
           /\ ~InSkillsList(rules.must_skills[k].skill, candidate)
           /\ InRawText(rules.must_skills[k].skill, candidate)
    /\ {result.matched_must[n].matched_via : n \in 1..Len(result.matched_must)}
           = {"skills_list", "raw_text"}
    /\ Len(result.matched_must) = 3

(* C21 *)

\* the provenance a skill rule must be reported with, "none" for a rule that
\* must be missing: a keyword rule by the skills list, then the raw text; a
\* regex rule by its pattern alone, which has to be there (not None, not
\* empty), to compile and to be found in the raw text whatever the case
ExpectedVia(rule, c) ==
    IF rule.type = "keyword"
    THEN IF InSkillsList(rule.skill, c) THEN "skills_list"
         ELSE IF InRawText(rule.skill, c) THEN "raw_text"
         ELSE "none"
    ELSE IF /\ rule.pattern.present
            /\ rule.pattern.text # <<>>
            /\ \A i \in 1..Len(rule.pattern.text) : rule.pattern.text[i] # "("
            /\ \E alt \in Alternatives(rule.pattern.text, 1) :
                   IsSubstring(Lower(alt), Lower(c.raw_text))
    THEN "regex"
    ELSE "none"

\* matched and missing are the rules of skill_rules, in rule order, with the
\* expected provenance
RulesMatchAsExpected(skill_rules, matched, missing) ==
    LET hit == {i \in 1..Len(skill_rules) : ExpectedVia(skill_rules[i], candidate) # "none"}
    IN  /\ [j \in 1..Len(matched) |->
                <<matched[j].name, matched[j].weight, matched[j].matched_via>>]
               = Pick([i \in 1..Len(skill_rules) |->
                          <<skill_rules[i].skill, skill_rules[i].weight,
                            ExpectedVia(skill_rules[i], candidate)>>], hit, 1)
        /\ ItemKeys(missing) = Pick(RuleKeys(skill_rules), (1..Len(skill_rules)) \ hit, 1)

\* C21: a regex skill rule is matched iff it has a pattern, the pattern
\* compiles and a case-insensitive search finds it in raw_text, and then its
\* provenance is regex; a regex rule without a pattern is never matched, and
\* no regex rule is matched through its skill name being in the skills list
\* or in raw_text.
C21_RegexRuleMatches ==
    Returned =>
        /\ RulesMatchAsExpected(rules.must_skills, result.matched_must, result.missing_must)
        /\ RulesMatchAsExpected(rules.nice_skills, result.matched_nice, result.missing_nice)

\* a regex rule matched by its pattern in a text of another case, beside a
\* regex rule without a pattern that is missing although its skill name is in
\* the skills list and in the text
C21_Witness ==
    /\ Returned
    /\ \E i, j \in 1..Len(rules.must_skills) :
           /\ rules.must_skills[i].type = "regex"
           /\ ~rules.must_skills[i].pattern.present
           /\ InSkillsList(rules.must_skills[i].skill, candidate)
           /\ InRawText(rules.must_skills[i].skill, candidate)
           /\ rules.must_skills[j].type = "regex"
           /\ rules.must_skills[j].pattern.present
           /\ ~IsSubstring(rules.must_skills[j].pattern.text, candidate.raw_text)
    /\ Len(result.matched_must) = 1
    /\ result.matched_must[1].matched_via = "regex"
    /\ Len(result.missing_must) = 1

(* C22 *)

\* C22: the grade is the first of A, B, C whose threshold the reported
\* total_score meets or exceeds, and D when none is met: A iff score >= A,
\* B iff B <= score < A, C iff C <= score < B, D iff score < C; the score so
\* graded is the clamped total that the result reports.
C22_GradeIsFirstThresholdMet ==
    Returned =>
        LET t == rules.grade_thresholds
            score == result.total_score
        IN  /\ result.grade = "A" <=> score >= t.A
            /\ result.grade = "B" <=> (t.B <= score /\ score < t.A)
            /\ result.grade = "C" <=> (t.C <= score /\ score < t.B)
            /\ result.grade = "D" <=> score < t.C
            /\ score = Clamp(PositiveSum - result.reject_penalty)

\* a total that sits exactly on threshold B, below a higher threshold A, and
\* is graded B
C22_Witness ==
    /\ Returned
    /\ result.total_score = rules.grade_thresholds.B
    /\ rules.grade_thresholds.B < rules.grade_thresholds.A
    /\ rules.grade_thresholds.C < rules.grade_thresholds.B
    /\ result.grade = "B"

(* C23 *)

\* the lines of the explanation of the given kind
LinesOf(kind) == SelectSeq(result.explanation, LAMBDA l : l.kind = kind)

\* the reject rules whose keyword is in the raw text, whatever the case
RejectHits ==
    {i \in 1..Len(rules.reject_rules) :
        IsSubstring(Lower(rules.reject_rules[i].keyword), Lower(candidate.raw_text))}

\* C23: when a reject rule matched, the reject-keywords section of the
\* explanation has one line per matched reject rule, in rule order, showing
\* the keyword and the penalty of that rule, so that the penalties of the
\* lines add up to the deduction in the section header, reject_penalty; this
\* also when two reject rules carry the same keyword with different penalties.
C23_RejectLinesShowRulePenalty ==
    (Returned /\ result.matched_reject # <<>>) =>
        LET listed == LinesOf("reject_item")
        IN  /\ [j \in 1..Len(listed) |-> <<listed[j].name, listed[j].x>>]
                   = Pick([i \in 1..Len(rules.reject_rules) |->
                              <<rules.reject_rules[i].keyword,
                                rules.reject_rules[i].penalty>>], RejectHits, 1)
            /\ SumOver([j \in 1..Len(listed) |-> listed[j].x], 1..Len(listed))
                   = result.reject_penalty
            /\ LinesOf("reject_header") = <<Line("reject_header", <<>>, result.reject_penalty, 0)>>

(* C24 *)

\* the kinds of the lines that open a section
SectionHeads ==
    {"title", "must_header", "nice_header", "reject_header", "risk_header", "closing_header"}

\* the section heads of the explanation, in the order of the text
HeadsOfExplanation ==
    LET heads == SelectSeq(result.explanation, LAMBDA l : l.kind \in SectionHeads)
    IN  [j \in 1..Len(heads) |-> heads[j].kind]

\* the head of the section that line i of the explanation lies in
RECURSIVE SectionAt(_)
SectionAt(i) ==
    IF result.explanation[i].kind \in SectionHeads THEN result.explanation[i].kind
    ELSE SectionAt(i - 1)

\* the sections a line of the given kind may lie in
SectionsFor(kind) ==
    CASE kind \in {"total", "grade"} -> {"title"}
      [] kind \in {"missing_count", "missing_item"} -> {"must_header"}
      [] kind \in {"matched_count", "matched_item"} -> {"must_header", "nice_header"}
      [] kind = "nice_none" -> {"nice_header"}
      [] kind = "reject_item" -> {"reject_header"}
      [] kind \in {"risk_item", "risk_impact"} -> {"risk_header"}
      [] kind = "closing" -> {"closing_header"}
      [] kind = "blank" -> SectionHeads \ {"closing_header"}
      [] OTHER -> {kind}

\* C24: the explanation is, in this order, the header with total score and
\* grade, the must-skills section, the nice-skills section, the reject-keywords
\* section, the risk section and the closing recommendation; header, must
\* section and closing are always there, the nice section iff the rule set
\* has a nice rule, the reject section iff a reject rule matched, the risk
\* section iff there are risks; every line lies in the section of its kind,
\* and the closing recommendation is the one of the grade.
C24_SectionsInOrder ==
    Returned =>
        /\ HeadsOfExplanation =
               <<"title", "must_header">>
               \o (IF rules.nice_skills # <<>> THEN <<"nice_header">> ELSE <<>>)
               \o (IF result.matched_reject # <<>> THEN <<"reject_header">> ELSE <<>>)
               \o (IF result.risks # <<>> THEN <<"risk_header">> ELSE <<>>)
               \o <<"closing_header">>
        /\ result.explanation[1].kind = "title"
        /\ \A i \in 1..Len(result.explanation) :
               SectionAt(i) \in SectionsFor(result.explanation[i].kind)
        /\ LinesOf("total") = <<Line("total", <<>>, result.total_score, 0)>>
        /\ LinesOf("grade") = <<Line("grade", <<result.grade>>, 0, 0)>>
        /\ LinesOf("closing") = <<Line("closing", <<result.grade>>, 0, 0)>>
        /\ result.explanation[Len(result.explanation)].kind = "closing"

\* an explanation with all six sections
C24_Witness ==
    /\ Returned
    /\ HeadsOfExplanation = <<"title", "must_header", "nice_header", "reject_header",
                              "risk_header", "closing_header">>
    /\ LinesOf("reject_item") # <<>>
    /\ LinesOf("risk_item") # <<>>
    /\ LinesOf("matched_item") # <<>>

----------------------------------------------------------------------------
(* C25 *)

\* a record has come back from extract_text_from_pdf
Extracted == extraction.record # NoRecord

\* opening the document or reading one of its pages raised
ReadingRaised ==
    \/ ~extraction.pdf.opens
    \/ extraction.pdf.fails_at \in 1..Len(extraction.pdf.pages)

\* C25: extract_text_from_pdf always returns a record (no exception reaches
\* the caller) whose ok is (status = 'success') and whose status is success,
\* needs_review or failed: failed exactly when opening or reading the
\* document raised, and then text is empty and pages and chars are 0;
\* otherwise success exactly when the stripped characters of all pages
\* number at least MIN_TEXT_LENGTH, needs_review exactly when they number
\* fewer, and pages is the number of page texts returned.
C25_ExtractionRecord ==
    Extracted =>
        LET rec == extraction.record
            count == TotalChars(extraction.pdf.pages)
        IN  /\ rec.status \in {"success", "needs_review", "failed"}
            /\ rec.ok = (rec.status = "success")
            /\ (rec.status = "failed") = ReadingRaised
            /\ ReadingRaised =>
                 /\ rec.text = <<>>
                 /\ rec.pages = 0
                 /\ rec.chars = 0
            /\ ~ReadingRaised =>
                 /\ (rec.status = "success") = (count >= extraction.min_text_length)
                 /\ (rec.status = "needs_review") = (count < extraction.min_text_length)
                 /\ rec.pages = Len(rec.page_texts)

====
